---- MODULE Spec2Model ----
(***************************************************************************)
(* A model of rag/app/manual.py: the "manual" chunker of ragflow.          *)
(*                                                                         *)
(*   - the Section Assigner   (chunk, lines 233-238)                       *)
(*   - the Chunk Merger       (chunk, lines 240-278)                       *)
(*   - the outline classifier (chunk, lines 214-226)                       *)
(*   - the Q/A Reconstructor  (Docx.__call__, lines 103-151)               *)
(*   - the Table Normalizer   (Docx.__call__, lines 153-173)               *)
(*   - the dispatch on the file name (chunk, lines 188, 280, 322)          *)
(*   - the Geometry Tagger    (chunk.tag, lines 246-249)                   *)
(*                                                                         *)
(* Each component has its own variables and its own specification; the     *)
(* variables of the other components stay at their initial values.         *)
(*                                                                         *)
(* Strings.  A text handed to the tokenizer is a string of a small set     *)
(* with a fixed token count (NumTokens).  A string the code builds by      *)
(* concatenation is the sequence of the parts concatenated.                *)
(* Coordinates are in eighths of a unit, which are exact as binary         *)
(* floating point numbers.                                                 *)
(***************************************************************************)
EXTENDS Integers, Sequences, FiniteSets, TLC

VARIABLES
    \* ---- Section Assigner (chunk, lines 232-238)
    levels,        \* per-block heading levels
    most_level,    \* the pivot level
    a_i,           \* loop index of `for i, lvl in enumerate(levels)` (0-based)
    sid,           \* running section id
    sec_ids,       \* section ids assigned so far
    \* ---- Chunk Merger (chunk, lines 240-278)
    sections,      \* list of (txt, sec_id, poss)
    tbls,          \* list of ((img, rows), poss)
    from_page,
    queue,         \* sorted(sections, key=...) once computed
    k,             \* number of items of queue the merge loop has consumed
    chunks,
    last_sid,
    tk_cnt,
    using_vision_parser,
    res,           \* the records returned
    m_pc,
    \* ---- Q/A Reconstructor (Docx.__call__, lines 103-151)
    paras,         \* the paragraphs of self.doc.paragraphs read so far
    q_from_page,
    q_to_page,
    vision_model,  \* vision_model and vision_prompt are given
    pn,
    last_answer,
    last_image,
    question_stack,
    level_stack,
    ti_list,
    q_pc,
    \* ---- Table Normalizer (Docx.__call__, lines 153-173, chunk line 312)
    doc_tables,    \* the tables of self.doc.tables read so far
    d_tbls,        \* tbls of Docx.__call__
    d_res,         \* tokenize_table(tbls, doc, eng) of line 312
    t_pc,
    \* ---- Outline classifier (chunk, lines 214-232)
    has_outlines,  \* hasattr(pdf_parser, "outlines")
    outlines,      \* pdf_parser.outlines: list of (text, level)
    o_sections,    \* the texts of the blocks
    max_lvl,
    o_most_level,
    o_levels,
    o_i,           \* blocks the loop of line 218 has handled
    o_pc,
    \* ---- Dispatch on the file name (chunk, lines 176-208, 280-322)
    filename,          \* the characters of the file name
    layout_recognize,  \* parser_config["layout_recognize"]
    parsers,           \* the parsers invoked, in order
    c_out,             \* how the call went on
    \* ---- Geometry Tagger (chunk.tag, lines 246-249)
    g_pos,         \* (pn, left, right, top, bottom)
    g_tag,         \* what tag(*pos) returned
    g_pc

assignVars == <<levels, most_level, a_i, sid, sec_ids>>
mergeVars  == <<sections, tbls, from_page, queue, k, chunks, last_sid, tk_cnt,
                using_vision_parser, res, m_pc>>
qaVars     == <<paras, q_from_page, q_to_page, vision_model, pn, last_answer, last_image,
                question_stack, level_stack, ti_list, q_pc>>
tableVars  == <<doc_tables, d_tbls, d_res, t_pc>>
outlineVars == <<has_outlines, outlines, o_sections, max_lvl, o_most_level, o_levels,
                 o_i, o_pc>>
chunkVars == <<filename, layout_recognize, parsers, c_out>>
tagVars == <<g_pos, g_tag, g_pc>>
vars == <<assignVars, mergeVars, qaVars, tableVars, outlineVars, chunkVars, tagVars>>

----------------------------------------------------------------------------
(* Bounds of the model *)

MaxLevels == 4      \* blocks handed to the Section Assigner
MaxItems  == 3      \* blocks plus tables handed to the Chunk Merger

(* Program constants *)

MergeAlways  == 32      \* tk_cnt < 32
MergeLimit   == 1024    \* tk_cnt < 1024
NoSection    == -2      \* last_sid = -2
TableSection == -1      \* the sec_id of a table item

----------------------------------------------------------------------------
(* Helpers over sequences *)

Last(s) == s[Len(s)]

RECURSIVE SumSeq(_)
SumSeq(s) == IF s = <<>> THEN 0 ELSE s[1] + SumSeq(Tail(s))

RECURSIVE Flatten(_)
Flatten(ss) == IF ss = <<>> THEN <<>> ELSE ss[1] \o Flatten(Tail(ss))

SeqsUpTo(S, n) == UNION {[1..m -> S] : m \in 0..n}

----------------------------------------------------------------------------
(* Section Assigner *)

LevelValues == 0..3
PivotValues == 0..2

\* `lvl <= most_level and i > 0 and lvl != levels[i - 1]`, i 0-based
NoFirstGuardNewSection(lv, ml, i) ==
    /\ lv[i + 1] <= ml
    /\ lv[i + 1] # (IF i > 0 THEN lv[i] ELSE lv[Len(lv)])
NewSectionBelowPivot(lv, ml, i) ==
    /\ lv[i + 1] < ml
    /\ i > 0
    /\ lv[i + 1] # lv[i]
NewSection(lv, ml, i) ==
    /\ lv[i + 1] <= ml
    /\ i > 0
    /\ lv[i + 1] # lv[i]

\* the whole loop of lines 233-238 as a function of (levels, most_level)
RECURSIVE SecIdsFrom(_, _, _, _)
SecIdsFrom(lv, ml, i, s) ==
    IF i >= Len(lv) THEN <<>>
    ELSE LET s2 == IF NewSection(lv, ml, i) THEN s + 1 ELSE s
         IN  <<s2>> \o SecIdsFrom(lv, ml, i + 1, s2)
SecIds(lv, ml) == SecIdsFrom(lv, ml, 0, 0)

InitAssign ==
    /\ levels \in SeqsUpTo(LevelValues, MaxLevels)
    /\ most_level \in PivotValues
    /\ a_i = 0
    /\ sid = 0
    /\ sec_ids = <<>>

IdleAssign ==
    /\ levels = <<>>
    /\ most_level = 0
    /\ a_i = 0
    /\ sid = 0
    /\ sec_ids = <<>>

\* one iteration of `for i, lvl in enumerate(levels)` that increments sid
AssignNewSection ==
    /\ a_i < Len(levels)
    /\ NewSection(levels, most_level, a_i)
    /\ sid' = sid + 1
    /\ sec_ids' = Append(sec_ids, sid + 1)
    /\ a_i' = a_i + 1
    /\ UNCHANGED <<levels, most_level>>

\* one iteration that keeps sid
AssignSameSection ==
    /\ a_i < Len(levels)
    /\ ~NewSection(levels, most_level, a_i)
    /\ sec_ids' = Append(sec_ids, sid)
    /\ a_i' = a_i + 1
    /\ UNCHANGED <<levels, most_level, sid>>

NextAssign ==
    \/ AssignNewSection /\ UNCHANGED <<mergeVars, qaVars, tableVars, outlineVars, chunkVars, tagVars>>
    \/ AssignSameSection /\ UNCHANGED <<mergeVars, qaVars, tableVars, outlineVars, chunkVars, tagVars>>

----------------------------------------------------------------------------
(* Geometry Tagger *)

\* '{:.1f}'.format(x) for x given in eighths: the tenths, round-half-even
Fmt1HalfUp(x) ==
    LET q == (5 * x) \div 4
        r == (5 * x) % 4
    IN  IF r < 2 THEN q ELSE q + 1
Fmt1(x) ==
    LET q == (5 * x) \div 4
        r == (5 * x) % 4
    IN  IF r < 2 THEN q
        ELSE IF r > 2 THEN q + 1
        ELSE IF q % 2 = 0 THEN q ELSE q + 1

\* tag(pn, left, right, top, bottom); "" is <<>>
tagEmptyOnPageZero(pos) ==
    IF pos[1] = 0 THEN <<>>
    ELSE <<pos[1], Fmt1(pos[2]), Fmt1(pos[3]), Fmt1(pos[4]), Fmt1(pos[5])>>
tag(pos) ==
    IF pos[1] + pos[2] + pos[3] + pos[4] + pos[5] = 0 THEN <<>>
    ELSE <<pos[1], Fmt1(pos[2]), Fmt1(pos[3]), Fmt1(pos[4]), Fmt1(pos[5])>>

\* "\t".join([tag(*pos) for pos in poss]): the sequence of the tags joined
JoinTags(poss) == [j \in 1..Len(poss) |-> tag(poss[j])]

----------------------------------------------------------------------------
(* Chunk Merger *)

\* what the external tokenizer counts for each text of the model
NumTokens(txt) ==
    CASE txt = ""  -> 0
      [] txt = "s" -> 16
      [] txt = "m" -> 32
      [] txt = "l" -> 992
      [] txt = "t" -> 32
      [] OTHER     -> 1

BlockTexts == {"s", "m", "l"}
TableRows  == {"", "t"}

\* (pn, left, right, top, bottom), coordinates in eighths
BlockPoss == { << <<0, 0, 0, 0, 0>> >>,
               << <<1, 8, 80, 16, 26>> >>,
               << <<1, 16, 80, 8, 13>>, <<2, 16, 80, 0, 8>> >> }
TablePoss == { << <<0, 8, 80, 12, 14>> >>,
               << <<1, 0, 80, 4, 6>> >> }

Item(txt, sec_id, poss) == [txt |-> txt, sec_id |-> sec_id, poss |-> poss]

\* key=lambda x: (x[-1][0][0], x[-1][0][3], x[-1][0][1])
SortKeyLeftBeforeTop(x) == <<x.poss[1][1], x.poss[1][2], x.poss[1][4]>>
SortKey(x) == <<x.poss[1][1], x.poss[1][4], x.poss[1][2]>>

KeyLess(a, b) ==
    \/ a[1] < b[1]
    \/ a[1] = b[1] /\ a[2] < b[2]
    \/ a[1] = b[1] /\ a[2] = b[2] /\ a[3] < b[3]

\* insert x behind every element whose key is not greater: a stable sort
RECURSIVE InsertSorted(_, _)
InsertSorted(s, x) ==
    IF s = <<>> THEN <<x>>
    ELSE IF KeyLess(SortKey(x), SortKey(s[1])) THEN <<x>> \o s
    ELSE <<s[1]>> \o InsertSorted(Tail(s), x)

RECURSIVE Sorted(_)
Sorted(s) ==
    IF s = <<>> THEN <<>>
    ELSE InsertSorted(Sorted(SubSeq(s, 1, Len(s) - 1)), Last(s))

\* lines 241-244: the items of the tables whose rows are not empty
RECURSIVE TableItemsKeepEmpty(_, _)
TableItemsKeepEmpty(tb, fp) ==
    IF tb = <<>> THEN <<>>
    ELSE <<Item(tb[1].rows, TableSection,
                [j \in 1..Len(tb[1].poss) |->
                    <<tb[1].poss[j][1] + 1 - fp, tb[1].poss[j][2], tb[1].poss[j][3],
                      tb[1].poss[j][4], tb[1].poss[j][5]>>])>>
         \o TableItemsKeepEmpty(Tail(tb), fp)
RECURSIVE TableItems(_, _)
TableItems(tb, fp) ==
    IF tb = <<>> THEN <<>>
    ELSE IF tb[1].rows = "" THEN TableItems(Tail(tb), fp)
    ELSE <<Item(tb[1].rows, TableSection,
                [j \in 1..Len(tb[1].poss) |->
                    <<tb[1].poss[j][1] + 1 - fp, tb[1].poss[j][2], tb[1].poss[j][3],
                      tb[1].poss[j][4], tb[1].poss[j][5]>>])>>
         \o TableItems(Tail(tb), fp)

\* line 256
UsingVision(secs) == secs # <<>> /\ \A j \in 1..Len(secs) : secs[j].sec_id = 0

\* line 265, with `if not using_vision_parser` of line 264
MergeAt32Inclusive(tk, sec_id, last, vision) ==
    ~vision /\ (tk <= MergeAlways
                \/ (tk < MergeLimit /\ (sec_id = last \/ sec_id = TableSection)))
MergeAt1024Inclusive(tk, sec_id, last, vision) ==
    ~vision /\ (tk < MergeAlways
                \/ (tk <= MergeLimit /\ (sec_id = last \/ sec_id = TableSection)))
MergeIgnoringVision(tk, sec_id, last, vision) ==
    tk < MergeAlways \/ (tk < MergeLimit /\ (sec_id = last \/ sec_id = TableSection))
MergeNeverTables(tk, sec_id, last, vision) ==
    ~vision /\ (tk < MergeAlways \/ (tk < MergeLimit /\ sec_id = last))
should_merge(tk, sec_id, last, vision) ==
    ~vision /\ (tk < MergeAlways
                \/ (tk < MergeLimit /\ (sec_id = last \/ sec_id = TableSection)))

\* txt + poss, the part of a chunk that one item contributes
Piece(x) == [txt |-> x.txt, poss |-> JoinTags(x.poss)]

\* chunks[-1] += "\n" + txt + poss
MergedIntoFirst(cs, x) == [cs EXCEPT ![1] = Append(@, Piece(x))]
MergedOverLast(cs, x) == [cs EXCEPT ![Len(cs)] = <<Piece(x)>>]
Merged(cs, x) == [cs EXCEPT ![Len(cs)] = Append(@, Piece(x))]

\* the blocks as line 240 leaves them: section ids of the Section Assigner
SecIdSeqs(n) == {SecIds(lv, ml) : lv \in [1..n -> 0..2], ml \in {1}}

InitMerge ==
    /\ \E nb \in 0..MaxItems :
         \E ids \in SecIdSeqs(nb), txts \in [1..nb -> BlockTexts],
            ps \in [1..nb -> BlockPoss] :
              sections = [j \in 1..nb |-> Item(txts[j], ids[j], ps[j])]
    /\ \E nt \in 0..(MaxItems - Len(sections)) :
         \E rows \in [1..nt -> TableRows], ps \in [1..nt -> TablePoss] :
              tbls = [j \in 1..nt |-> [rows |-> rows[j], poss |-> ps[j]]]
    /\ from_page \in {0, 1}
    /\ queue = <<>>
    /\ k = 0
    /\ chunks = <<>>
    /\ last_sid = NoSection
    /\ tk_cnt = 0
    /\ using_vision_parser = FALSE
    /\ res = <<>>
    /\ m_pc = "tables"

IdleMerge ==
    /\ sections = <<>>
    /\ tbls = <<>>
    /\ from_page = 0
    /\ queue = <<>>
    /\ k = 0
    /\ chunks = <<>>
    /\ last_sid = NoSection
    /\ tk_cnt = 0
    /\ using_vision_parser = FALSE
    /\ res = <<>>
    /\ m_pc = "idle"

\* lines 241-258: append the table items, detect the vision mode, sort
AppendTables ==
    /\ m_pc = "tables"
    /\ sections' = sections \o TableItems(tbls, from_page)
    /\ using_vision_parser' = UsingVision(sections')
    /\ queue' = Sorted(sections')
    /\ m_pc' = "merge"
    /\ UNCHANGED <<tbls, from_page, k, chunks, last_sid, tk_cnt, res>>

\* lines 267-269: one iteration of the loop that merges the item
MergeItemSetsLastSid ==
    /\ m_pc = "merge"
    /\ k < Len(queue)
    /\ LET x == queue[k + 1] IN
         /\ should_merge(tk_cnt, x.sec_id, last_sid, using_vision_parser)
         /\ chunks # <<>>
         /\ chunks' = Merged(chunks, x)
         /\ tk_cnt' = tk_cnt + NumTokens(x.txt)
         /\ last_sid' = IF x.sec_id > -1 THEN x.sec_id ELSE last_sid
    /\ k' = k + 1
    /\ UNCHANGED <<sections, tbls, from_page, queue, using_vision_parser, res, m_pc>>
MergeItem ==
    /\ m_pc = "merge"
    /\ k < Len(queue)
    /\ LET x == queue[k + 1] IN
         /\ should_merge(tk_cnt, x.sec_id, last_sid, using_vision_parser)
         /\ chunks # <<>>
         /\ chunks' = Merged(chunks, x)
         /\ tk_cnt' = tk_cnt + NumTokens(x.txt)
    /\ k' = k + 1
    /\ UNCHANGED <<sections, tbls, from_page, queue, last_sid, using_vision_parser,
                   res, m_pc>>

\* lines 270-274: one iteration of the loop that starts a new chunk
NewChunkSetsLastSidOfTables ==
    /\ m_pc = "merge"
    /\ k < Len(queue)
    /\ LET x == queue[k + 1] IN
         /\ ~(should_merge(tk_cnt, x.sec_id, last_sid, using_vision_parser)
              /\ chunks # <<>>)
         /\ chunks' = Append(chunks, <<Piece(x)>>)
         /\ tk_cnt' = NumTokens(x.txt)
         /\ last_sid' = x.sec_id
    /\ k' = k + 1
    /\ UNCHANGED <<sections, tbls, from_page, queue, using_vision_parser, res, m_pc>>
NewChunk ==
    /\ m_pc = "merge"
    /\ k < Len(queue)
    /\ LET x == queue[k + 1] IN
         /\ ~(should_merge(tk_cnt, x.sec_id, last_sid, using_vision_parser)
              /\ chunks # <<>>)
         /\ chunks' = Append(chunks, <<Piece(x)>>)
         /\ tk_cnt' = NumTokens(x.txt)
         /\ last_sid' = IF x.sec_id > -1 THEN x.sec_id ELSE last_sid
    /\ k' = k + 1
    /\ UNCHANGED <<sections, tbls, from_page, queue, using_vision_parser, res, m_pc>>

\* tokenize_table(tbls, doc, eng): one record for each table whose rows are not
\* empty (rag/nlp, not part of the sources at hand)
RECURSIVE TokenizeTable(_)
TokenizeTable(tb) ==
    IF tb = <<>> THEN <<>>
    ELSE IF tb[1].rows = "" THEN TokenizeTable(Tail(tb))
    ELSE <<[kind |-> "table", rows |-> tb[1].rows]>> \o TokenizeTable(Tail(tb))

\* tokenize_chunks(chunks, doc, eng, pdf_parser): one record for each chunk
TokenizeChunks(cs) == [j \in 1..Len(cs) |-> [kind |-> "chunk", text |-> cs[j]]]

\* lines 276-278, after the loop
Tokenize ==
    /\ m_pc = "merge"
    /\ k = Len(queue)
    /\ res' = TokenizeTable(tbls) \o TokenizeChunks(chunks)
    /\ m_pc' = "done"
    /\ UNCHANGED <<sections, tbls, from_page, queue, k, chunks, last_sid, tk_cnt,
                   using_vision_parser>>

NextMerge ==
    \/ AppendTables /\ UNCHANGED <<assignVars, qaVars, tableVars, outlineVars, chunkVars, tagVars>>
    \/ MergeItem /\ UNCHANGED <<assignVars, qaVars, tableVars, outlineVars, chunkVars, tagVars>>
    \/ NewChunk /\ UNCHANGED <<assignVars, qaVars, tableVars, outlineVars, chunkVars, tagVars>>
    \/ Tokenize /\ UNCHANGED <<assignVars, qaVars, tableVars, outlineVars, chunkVars, tagVars>>

----------------------------------------------------------------------------
(* Q/A Reconstructor: Docx.__call__, the loop over the paragraphs *)

NoImage == <<>>          \* None

\* a paragraph: its text (stripped; "" when blank), the level of its style as
\* docx_question_level reports it, its picture (width, height) and its runs:
\*   "text"      a run without a page break
\*   "rendered"  a run with lastRenderedPageBreak
\*   "brpage"    a run with <w:br w:type="page"/>
\*   "both"      a run with both markers
Para(text, level, pic, runs) ==
    [text |-> text, level |-> level, pic |-> pic, runs |-> runs]

ParaKinds ==
    { Para("H1", 1, NoImage, <<"text">>),
      Para("H2", 2, NoImage, <<"text">>),
      Para("H3", 1, NoImage, <<"text">>),
      Para("P1", 0, NoImage, <<"text">>),
      Para("P2", 0, NoImage, <<"text", "both">>),
      Para("",   0, <<2, 1>>, <<"rendered", "brpage">>),
      Para("H7", 7, <<1, 2>>, <<"text">>),
      Para("H4", 3, NoImage, <<"both", "text">>) }

PageRanges == { <<0, 10000>>, <<1, 2>> }

\* what vision_model.describe_with_prompt returns when it succeeds
ImageText == "D"

\* a string is true when it has a character
NonEmptyStr(parts) == \E j \in 1..Len(parts) : parts[j] # ""

\* "\n".join(question_stack)
RECURSIVE Join(_)
Join(stack) ==
    IF stack = <<>> THEN <<>>
    ELSE IF Len(stack) = 1 THEN <<stack[1]>>
    ELSE <<stack[1], "\n">> \o Join(Tail(stack))

\* concat_img, lines 84-101
concat_img(img1, img2) ==
    IF img1 # NoImage /\ img2 = NoImage THEN img1
    ELSE IF img1 = NoImage /\ img2 # NoImage THEN img2
    ELSE IF img1 = NoImage /\ img2 = NoImage THEN NoImage
    ELSE << (IF img1[1] >= img2[1] THEN img1[1] ELSE img2[1]), img1[2] + img2[2] >>

\* lines 112-114: (question_level, p_text)
QuestionLevelOnAnyPage(p, fp, tp, page) ==
    IF p.text # "" THEN <<p.level, p.text>> ELSE <<0, "">>
QuestionLevel(p, fp, tp, page) ==
    IF fp <= page /\ page < tp /\ p.text # ""
    THEN <<p.level, p.text>>
    ELSE <<0, "">>

\* line 115
IsQuestion(ql) == ~(ql = 0 \/ ql > 6)

\* lines 131-133 and 149-151: the unit appended when the heading path is not empty
FlushedLeafOnly(tl, qs, answer, image) ==
    IF NonEmptyStr(Join(qs))
    THEN Append(tl, [text |-> <<Last(qs)>> \o <<"\n">> \o answer, image |-> image])
    ELSE tl
FlushedWithoutPath(tl, qs, answer, image) ==
    Append(tl, [text |-> Join(qs) \o <<"\n">> \o answer, image |-> image])
Flushed(tl, qs, answer, image) ==
    IF NonEmptyStr(Join(qs))
    THEN Append(tl, [text |-> Join(qs) \o <<"\n">> \o answer, image |-> image])
    ELSE tl

\* lines 137-139: how many entries stay on the stacks
RECURSIVE KeptDepthPopsAbove(_, _)
KeptDepthPopsAbove(ls, i) ==
    IF ls # <<>> /\ i < Last(ls) THEN KeptDepthPopsAbove(SubSeq(ls, 1, Len(ls) - 1), i)
    ELSE Len(ls)
RECURSIVE KeptDepth(_, _)
KeptDepth(ls, i) ==
    IF ls # <<>> /\ i <= Last(ls) THEN KeptDepth(SubSeq(ls, 1, Len(ls) - 1), i)
    ELSE Len(ls)

\* lines 142-147: the page counter after the runs of a paragraph
RECURSIVE PagesAfter(_, _)
PagesAfter(runs, page) ==
    IF runs = <<>> THEN page
    ELSE PagesAfter(Tail(runs), IF runs[1] = "text" THEN page ELSE page + 1)

MaxParas == 5       \* paragraphs read by the Q/A Reconstructor

InitQA ==
    /\ paras = <<>>
    /\ \E r \in PageRanges : q_from_page = r[1] /\ q_to_page = r[2]
    /\ vision_model \in BOOLEAN
    /\ pn = 0
    /\ last_answer = <<>>
    /\ last_image = NoImage
    /\ question_stack = <<>>
    /\ level_stack = <<>>
    /\ ti_list = <<>>
    /\ q_pc = "read"

IdleQA ==
    /\ paras = <<>>
    /\ q_from_page = 0
    /\ q_to_page = 0
    /\ vision_model = FALSE
    /\ pn = 0
    /\ last_answer = <<>>
    /\ last_image = NoImage
    /\ question_stack = <<>>
    /\ level_stack = <<>>
    /\ ti_list = <<>>
    /\ q_pc = "idle"

\* the loop reads paragraph p: lines 109-111
Reads(p) ==
    /\ q_pc = "read"
    /\ Len(paras) < MaxParas
    /\ ~(pn > q_to_page)
    /\ paras' = Append(paras, p)
    /\ pn' = PagesAfter(p.runs, pn)
    /\ UNCHANGED <<q_from_page, q_to_page, vision_model, q_pc>>

\* lines 126-128: not a question, no picture or no vision model
QABodyPlainNoNewline ==
    \E p \in ParaKinds :
      LET ql == QuestionLevel(p, q_from_page, q_to_page, pn) IN
        /\ Reads(p)
        /\ ~IsQuestion(ql[1])
        /\ ~(p.pic # NoImage /\ vision_model)
        /\ last_answer' = last_answer \o <<ql[2]>>
        /\ last_image' = concat_img(last_image, p.pic)
        /\ UNCHANGED <<question_stack, level_stack, ti_list>>
QABodyPlain ==
    \E p \in ParaKinds :
      LET ql == QuestionLevel(p, q_from_page, q_to_page, pn) IN
        /\ Reads(p)
        /\ ~IsQuestion(ql[1])
        /\ ~(p.pic # NoImage /\ vision_model)
        /\ last_answer' = last_answer \o <<"\n", ql[2]>>
        /\ last_image' = concat_img(last_image, p.pic)
        /\ UNCHANGED <<question_stack, level_stack, ti_list>>

\* lines 119-121: not a question, the vision model describes the picture
QABodyDescribed ==
    \E p \in ParaKinds :
      LET ql == QuestionLevel(p, q_from_page, q_to_page, pn) IN
        /\ Reads(p)
        /\ ~IsQuestion(ql[1])
        /\ p.pic # NoImage /\ vision_model
        /\ last_answer' = last_answer \o <<"\n", ql[2], "\n[Image Content]: ", ImageText>>
        /\ UNCHANGED <<last_image, question_stack, level_stack, ti_list>>

\* lines 122-125: not a question, the vision model raises
QABodyDescribeFailedDropsImage ==
    \E p \in ParaKinds :
      LET ql == QuestionLevel(p, q_from_page, q_to_page, pn) IN
        /\ Reads(p)
        /\ ~IsQuestion(ql[1])
        /\ p.pic # NoImage /\ vision_model
        /\ last_answer' = last_answer \o <<"\n", ql[2]>>
        /\ UNCHANGED <<last_image, question_stack, level_stack, ti_list>>
QABodyDescribeFailed ==
    \E p \in ParaKinds :
      LET ql == QuestionLevel(p, q_from_page, q_to_page, pn) IN
        /\ Reads(p)
        /\ ~IsQuestion(ql[1])
        /\ p.pic # NoImage /\ vision_model
        /\ last_answer' = last_answer \o <<"\n", ql[2]>>
        /\ last_image' = concat_img(last_image, p.pic)
        /\ UNCHANGED <<question_stack, level_stack, ti_list>>

\* lines 129-141: a question
QAHeading ==
    \E p \in ParaKinds :
      LET ql   == QuestionLevel(p, q_from_page, q_to_page, pn)
          keep == KeptDepth(level_stack, ql[1])
      IN
        /\ Reads(p)
        /\ IsQuestion(ql[1])
        /\ IF NonEmptyStr(last_answer) \/ last_image # NoImage
           THEN /\ ti_list' = Flushed(ti_list, question_stack, last_answer, last_image)
                /\ last_answer' = <<>>
                /\ last_image' = NoImage
           ELSE UNCHANGED <<ti_list, last_answer, last_image>>
        /\ question_stack' = Append(SubSeq(question_stack, 1, keep), ql[2])
        /\ level_stack' = Append(SubSeq(level_stack, 1, keep), ql[1])

\* lines 148-151: the paragraphs are exhausted, or pn > to_page broke the loop
QAFinishNoFlush ==
    /\ q_pc = "read"
    /\ q_pc' = "done"
    /\ UNCHANGED <<paras, q_from_page, q_to_page, vision_model, pn, last_answer, last_image,
                   question_stack, level_stack, ti_list>>
QAFinish ==
    /\ q_pc = "read"
    /\ ti_list' = IF NonEmptyStr(last_answer)
                  THEN Flushed(ti_list, question_stack, last_answer, last_image)
                  ELSE ti_list
    /\ q_pc' = "done"
    /\ UNCHANGED <<paras, q_from_page, q_to_page, vision_model, pn, last_answer, last_image,
                   question_stack, level_stack>>

NextQA ==
    \/ QABodyPlain /\ UNCHANGED <<assignVars, mergeVars, tableVars, outlineVars, chunkVars, tagVars>>
    \/ QABodyDescribed /\ UNCHANGED <<assignVars, mergeVars, tableVars, outlineVars, chunkVars, tagVars>>
    \/ QABodyDescribeFailed /\ UNCHANGED <<assignVars, mergeVars, tableVars, outlineVars, chunkVars, tagVars>>
    \/ QAHeading /\ UNCHANGED <<assignVars, mergeVars, tableVars, outlineVars, chunkVars, tagVars>>
    \/ QAFinish /\ UNCHANGED <<assignVars, mergeVars, tableVars, outlineVars, chunkVars, tagVars>>

----------------------------------------------------------------------------
(* Table Normalizer: Docx.__call__, the loop over the tables *)

MaxCells     == 3   \* cells of a row
MaxRows      == 1   \* rows of all the tables of a document together
MaxDocTables == 2   \* tables of a document

CellTexts == {"", "a", "b"}

\* the parts the markup string is built from
El(name) == [el |-> name]
\* f"<td>{c.text}</td>" if span == 1 else f"<td colspan='{span}'>{c.text}</td>"
Td(text, span) ==
    IF span = 1 THEN [el |-> "td", text |-> text]
    ELSE [el |-> "td", colspan |-> span, text |-> text]

\* lines 162-167: how many cells from index j (0-based) on repeat the text c
RECURSIVE Repeats(_, _, _)
Repeats(cells, c, j) ==
    IF j < Len(cells) /\ cells[j + 1] = c THEN 1 + Repeats(cells, c, j + 1) ELSE 0

\* lines 158-169: the cells of a row from index i (0-based) on
RECURSIVE RowCellsFromNoSkip(_, _)
RowCellsFromNoSkip(cells, i) ==
    IF ~(i < Len(cells)) THEN <<>>
    ELSE LET c    == cells[i + 1]
             span == 1 + Repeats(cells, c, i + 1)
         IN  <<Td(c, span)>> \o RowCellsFromNoSkip(cells, i + 1)
RECURSIVE RowCellsFrom(_, _)
RowCellsFrom(cells, i) ==
    IF ~(i < Len(cells)) THEN <<>>
    ELSE LET c    == cells[i + 1]
             span == 1 + Repeats(cells, c, i + 1)
         IN  <<Td(c, span)>> \o RowCellsFrom(cells, i + span)

\* lines 156-170
RECURSIVE RowsHtml(_)
RowsHtml(rows) ==
    IF rows = <<>> THEN <<>>
    ELSE <<El("<tr>")>> \o RowCellsFrom(rows[1], 0) \o <<El("</tr>")>>
         \o RowsHtml(Tail(rows))

\* lines 155-171
Html(tb) == <<El("<table>")>> \o RowsHtml(tb) \o <<El("</table>")>>

\* tokenize_table(tbls, doc, eng) on the tables of a DOCX (rag/nlp, not part of
\* the sources at hand): one record for each table that has textual content, a
\* table with no textual content is not emitted
RECURSIVE TokenizeHtmlTable(_)
TokenizeHtmlTable(tb) ==
    IF tb = <<>> THEN <<>>
    ELSE IF \A j \in 1..Len(tb[1].rows) :
                tb[1].rows[j].el = "td" => tb[1].rows[j].text = ""
         THEN TokenizeHtmlTable(Tail(tb))
    ELSE <<[kind |-> "table", rows |-> tb[1].rows]>> \o TokenizeHtmlTable(Tail(tb))

RowsRead == SumSeq([j \in 1..Len(doc_tables) |-> Len(doc_tables[j])])

InitTable ==
    /\ doc_tables = <<>>
    /\ d_tbls = <<>>
    /\ d_res = <<>>
    /\ t_pc = "tables"

IdleTable ==
    /\ doc_tables = <<>>
    /\ d_tbls = <<>>
    /\ d_res = <<>>
    /\ t_pc = "idle"

\* lines 154-172: one iteration of `for tb in self.doc.tables`
NormalizeTable ==
    /\ t_pc = "tables"
    /\ Len(doc_tables) < MaxDocTables
    /\ \E tb \in SeqsUpTo(SeqsUpTo(CellTexts, MaxCells), MaxRows - RowsRead) :
         /\ doc_tables' = Append(doc_tables, tb)
         /\ d_tbls' = Append(d_tbls, [rows |-> Html(tb), poss |-> <<>>])
    /\ UNCHANGED <<d_res, t_pc>>

\* line 173 and chunk, line 312
TokenizeDocxTables ==
    /\ t_pc = "tables"
    /\ d_res' = TokenizeHtmlTable(d_tbls)
    /\ t_pc' = "done"
    /\ UNCHANGED <<doc_tables, d_tbls>>

NextTable ==
    \/ NormalizeTable /\ UNCHANGED <<assignVars, mergeVars, qaVars, outlineVars, chunkVars, tagVars>>
    \/ TokenizeDocxTables /\ UNCHANGED <<assignVars, mergeVars, qaVars, outlineVars, chunkVars, tagVars>>

----------------------------------------------------------------------------
(* Outline classifier: chunk, lines 214-232.  A text is a sequence of characters. *)

MaxBlocks   == 2    \* blocks handed to the classifier
MaxOutlines == 2    \* entries of the outline

OutlineEntries ==
    [t : { <<>>, <<"a", "b">>, <<"a", "b", "c">> }, lvl : 0..2]
BlockCharTexts ==
    { <<"a">>, <<"a", "b">>, <<"a", "b", "c">>, <<"b", "c">> }

\* set([s[i] + s[i + 1] for i in range(n)])
Bigrams(s, n) == { <<s[i + 1], s[i + 2]>> : i \in 0..(n - 1) }

Min(a, b) == IF a <= b THEN a ELSE b
Max(a, b) == IF a >= b THEN a ELSE b

\* lines 220-222; x / y > 0.8 is 5 * x > 4 * y for y > 0
MatchesFirstK(t, txt) ==
    LET n    == Min(Len(t), Len(txt))
        tks  == Bigrams(t, n - 1)
        tks_ == Bigrams(txt, n - 1)
    IN  5 * Cardinality(tks \cap tks_) > 4 * Cardinality(tks \cup tks_)
Matches(t, txt) ==
    LET tks  == Bigrams(t, Len(t) - 1)
        tks_ == Bigrams(txt, Min(Len(t), Len(txt) - 1))
    IN  5 * Cardinality(tks \cap tks_)
          > 4 * Max(Max(Cardinality(tks), Cardinality(tks_)), 1)

\* lines 219-226: what one block appends to levels
RECURSIVE LevelsForNoBreak(_, _, _)
LevelsForNoBreak(txt, ols, mx) ==
    IF ols = <<>> THEN <<mx + 1>>
    ELSE IF Matches(ols[1].t, txt)
         THEN <<ols[1].lvl>> \o LevelsForNoBreak(txt, Tail(ols), mx)
         ELSE LevelsForNoBreak(txt, Tail(ols), mx)
RECURSIVE LevelsForUnmatchedMax(_, _, _)
LevelsForUnmatchedMax(txt, ols, mx) ==
    IF ols = <<>> THEN <<mx>>
    ELSE IF Matches(ols[1].t, txt) THEN <<ols[1].lvl>>
    ELSE LevelsForUnmatchedMax(txt, Tail(ols), mx)
RECURSIVE LevelsFor(_, _, _)
LevelsFor(txt, ols, mx) ==
    IF ols = <<>> THEN <<mx + 1>>
    ELSE IF Matches(ols[1].t, txt) THEN <<ols[1].lvl>>
    ELSE LevelsFor(txt, Tail(ols), mx)

\* max([lvl for _, lvl in pdf_parser.outlines])
RECURSIVE MaxLevel(_)
MaxLevel(ols) ==
    IF Len(ols) = 1 THEN ols[1].lvl ELSE Max(ols[1].lvl, MaxLevel(Tail(ols)))

\* line 214; x / y > 0.03 is 100 * x > 3 * y for y > 0
OutlineUsable ==
    /\ has_outlines
    /\ Len(o_sections) > 0
    /\ 100 * Len(outlines) > 3 * Len(o_sections)

InitOutline ==
    /\ has_outlines \in BOOLEAN
    /\ outlines \in SeqsUpTo(OutlineEntries, MaxOutlines)
    /\ o_sections \in SeqsUpTo(BlockCharTexts, MaxBlocks)
    /\ max_lvl = 0
    /\ o_most_level = 0
    /\ o_levels = <<>>
    /\ o_i = 0
    /\ o_pc = "start"

IdleOutline ==
    /\ has_outlines = FALSE
    /\ outlines = <<>>
    /\ o_sections = <<>>
    /\ max_lvl = 0
    /\ o_most_level = 0
    /\ o_levels = <<>>
    /\ o_i = 0
    /\ o_pc = "idle"

\* lines 214-217
TakeOutlinePath ==
    /\ o_pc = "start"
    /\ OutlineUsable
    /\ max_lvl' = MaxLevel(outlines)
    /\ o_most_level' = Max(0, max_lvl' - 1)
    /\ o_levels' = <<>>
    /\ o_pc' = "match"
    /\ UNCHANGED <<has_outlines, outlines, o_sections, o_i>>

\* lines 218-226: one iteration of `for txt, _, _ in sections`
OutlineBlock ==
    /\ o_pc = "match"
    /\ o_i < Len(o_sections)
    /\ o_levels' = o_levels \o LevelsFor(o_sections[o_i + 1], outlines, max_lvl)
    /\ o_i' = o_i + 1
    /\ UNCHANGED <<has_outlines, outlines, o_sections, max_lvl, o_most_level, o_pc>>

\* lines 228-230: bullets_category and title_frequency (rag/nlp, not part of the
\* sources at hand) return a pivot level and one level for each block
TakeBulletPath ==
    /\ o_pc = "start"
    /\ ~OutlineUsable
    /\ o_most_level' \in 0..1
    /\ o_levels' \in [1..Len(o_sections) -> 0..1]
    /\ o_pc' = "bullets"
    /\ UNCHANGED <<has_outlines, outlines, o_sections, max_lvl, o_i>>

\* line 232: assert len(sections) == len(levels)
AssertLevels ==
    /\ \/ o_pc = "match" /\ o_i = Len(o_sections)
       \/ o_pc = "bullets"
    /\ o_pc' = IF Len(o_sections) = Len(o_levels)
               THEN (IF o_pc = "match" THEN "outline_ok" ELSE "bullets_ok")
               ELSE "AssertionError"
    /\ UNCHANGED <<has_outlines, outlines, o_sections, max_lvl, o_most_level, o_levels,
                   o_i>>

\* lines 232-234: the levels and the pivot level go to the Section Assigner
StartAssign ==
    /\ o_pc \in {"outline_ok", "bullets_ok"}
    /\ o_pc' = IF o_pc = "outline_ok" THEN "outline_assign" ELSE "bullets_assign"
    /\ levels' = o_levels
    /\ most_level' = o_most_level
    /\ a_i' = 0
    /\ sid' = 0
    /\ sec_ids' = <<>>
    /\ UNCHANGED <<has_outlines, outlines, o_sections, max_lvl, o_most_level, o_levels,
                   o_i>>

NextOutline ==
    \/ TakeOutlinePath /\ UNCHANGED <<assignVars, mergeVars, qaVars, tableVars, chunkVars, tagVars>>
    \/ OutlineBlock /\ UNCHANGED <<assignVars, mergeVars, qaVars, tableVars, chunkVars, tagVars>>
    \/ TakeBulletPath /\ UNCHANGED <<assignVars, mergeVars, qaVars, tableVars, chunkVars, tagVars>>
    \/ AssertLevels /\ UNCHANGED <<assignVars, mergeVars, qaVars, tableVars, chunkVars, tagVars>>

----------------------------------------------------------------------------
(* Dispatch on the file name: chunk, lines 188, 280 and 322 *)

MaxNameLen == 5     \* characters of a file name

NameChars == {".", "p", "d", "f", "F", "o", "c", "x", "\n"}

\* re.IGNORECASE on the characters of the model
Lower(c) == IF c = "F" THEN "f" ELSE c

\* the literal lit matches name at position i, ignoring case
MatchCI(name, i, lit) ==
    /\ i + Len(lit) - 1 <= Len(name)
    /\ \A j \in 1..Len(lit) : Lower(name[i + j - 1]) = lit[j]

\* `$` at position p: the end of the string, or just before a newline that
\* ends the string
AtEnd(name, p) ==
    \/ p = Len(name) + 1
    \/ p = Len(name) /\ name[p] = "\n"

\* re.search(r"\.pdf$", filename, re.IGNORECASE)
IsPdfName(name) ==
    \E i \in 1..Len(name) :
        MatchCI(name, i, <<".", "p", "d", "f">>) /\ AtEnd(name, i + 4)

\* re.search(r"\.docx?$", filename, re.IGNORECASE)
IsDocxNameDocOnly(name) ==
    \E i \in 1..Len(name) :
        MatchCI(name, i, <<".", "d", "o", "c">>) /\ AtEnd(name, i + 4)
IsDocxName(name) ==
    \E i \in 1..Len(name) :
        /\ MatchCI(name, i, <<".", "d", "o", "c">>)
        /\ \/ AtEnd(name, i + 4)
           \/ MatchCI(name, i + 4, <<"x">>) /\ AtEnd(name, i + 5)

\* parser_config.get("layout_recognize", "DeepDOC"); "vision" is any other name
LayoutRecognizers == {"DeepDOC", "Plain Text", "vision"}

InitChunk ==
    /\ filename \in SeqsUpTo(NameChars, MaxNameLen)
    /\ layout_recognize = "DeepDOC"
    /\ parsers = <<>>
    /\ c_out = "called"

IdleChunk ==
    /\ filename = <<>>
    /\ layout_recognize = "DeepDOC"
    /\ parsers = <<>>
    /\ c_out = "idle"

\* lines 192-194
ChunkPdfPlain ==
    /\ c_out = "called"
    /\ IsPdfName(filename)
    /\ layout_recognize' = "Plain Text"
    /\ parsers' = <<"PlainParser">>
    /\ c_out' = "parsed"
    /\ UNCHANGED filename

\* lines 195-197
ChunkPdfDeepDOC ==
    /\ c_out = "called"
    /\ IsPdfName(filename)
    /\ layout_recognize' = "DeepDOC"
    /\ parsers' = <<"Pdf">>
    /\ c_out' = "parsed"
    /\ UNCHANGED filename

\* lines 198-204
ChunkPdfVision ==
    /\ c_out = "called"
    /\ IsPdfName(filename)
    /\ layout_recognize' = "vision"
    /\ parsers' = <<"VisionParser">>
    /\ c_out' = "parsed"
    /\ UNCHANGED filename

\* lines 198-208: LLMBundle raises, or the VisionParser does
ChunkPdfVisionFallback ==
    /\ c_out = "called"
    /\ IsPdfName(filename)
    /\ layout_recognize' = "vision"
    /\ \E tried \in {<<>>, <<"VisionParser">>} : parsers' = tried \o <<"Pdf">>
    /\ c_out' = "parsed"
    /\ UNCHANGED filename

\* lines 280-311
ChunkDocx ==
    /\ c_out = "called"
    /\ ~IsPdfName(filename)
    /\ IsDocxName(filename)
    /\ layout_recognize' \in LayoutRecognizers
    /\ parsers' = <<"Docx">>
    /\ c_out' = "parsed"
    /\ UNCHANGED filename

\* lines 321-322
ChunkUnsupported ==
    /\ c_out = "called"
    /\ ~IsPdfName(filename)
    /\ ~IsDocxName(filename)
    /\ layout_recognize' \in LayoutRecognizers
    /\ c_out' = "NotImplementedError"
    /\ UNCHANGED <<filename, parsers>>

NextChunk ==
    \/ ChunkPdfPlain /\ UNCHANGED <<assignVars, mergeVars, qaVars, tableVars, outlineVars, tagVars>>
    \/ ChunkPdfDeepDOC /\ UNCHANGED <<assignVars, mergeVars, qaVars, tableVars, outlineVars, tagVars>>
    \/ ChunkPdfVision /\ UNCHANGED <<assignVars, mergeVars, qaVars, tableVars, outlineVars, tagVars>>
    \/ ChunkPdfVisionFallback /\ UNCHANGED <<assignVars, mergeVars, qaVars, tableVars, outlineVars, tagVars>>
    \/ ChunkDocx /\ UNCHANGED <<assignVars, mergeVars, qaVars, tableVars, outlineVars, tagVars>>
    \/ ChunkUnsupported /\ UNCHANGED <<assignVars, mergeVars, qaVars, tableVars, outlineVars, tagVars>>

----------------------------------------------------------------------------
(* Geometry Tagger as a function of one fragment: chunk.tag, lines 246-249 *)

MaxCoord == 3       \* the small coordinates, in eighths

\* 10.25, 50.75, 100.0 and 120.375 in eighths
GeoCoords == (0..MaxCoord) \cup {82, 406, 800, 963}
GeoPages  == {0, 1, 3}

InitTag ==
    /\ g_pos \in GeoPages \X GeoCoords \X GeoCoords \X GeoCoords \X GeoCoords
    /\ g_tag = <<>>
    /\ g_pc = "call"

IdleTag ==
    /\ g_pos = <<0, 0, 0, 0, 0>>
    /\ g_tag = <<>>
    /\ g_pc = "idle"

\* tag(*pos) returns the empty string: line 248
TagEmpty ==
    /\ g_pc = "call"
    /\ tag(g_pos) = <<>>
    /\ g_tag' = <<>>
    /\ g_pc' = "returned"
    /\ UNCHANGED g_pos

\* tag(*pos) returns the formatted tag: line 249
TagFormatted ==
    /\ g_pc = "call"
    /\ tag(g_pos) # <<>>
    /\ g_tag' = tag(g_pos)
    /\ g_pc' = "returned"
    /\ UNCHANGED g_pos

NextTag ==
    \/ TagEmpty /\ UNCHANGED <<assignVars, mergeVars, qaVars, tableVars, outlineVars, chunkVars>>
    \/ TagFormatted /\ UNCHANGED <<assignVars, mergeVars, qaVars, tableVars, outlineVars, chunkVars>>

----------------------------------------------------------------------------
(* Specifications *)

InitSpecAssign  == InitAssign /\ IdleMerge /\ IdleQA /\ IdleTable /\ IdleOutline
                   /\ IdleChunk /\ IdleTag
InitSpecMerge   == IdleAssign /\ InitMerge /\ IdleQA /\ IdleTable /\ IdleOutline
                   /\ IdleChunk /\ IdleTag
InitSpecQA      == IdleAssign /\ IdleMerge /\ InitQA /\ IdleTable /\ IdleOutline
                   /\ IdleChunk /\ IdleTag
InitSpecTable   == IdleAssign /\ IdleMerge /\ IdleQA /\ InitTable /\ IdleOutline
                   /\ IdleChunk /\ IdleTag
InitSpecOutline == IdleAssign /\ IdleMerge /\ IdleQA /\ IdleTable /\ InitOutline
                   /\ IdleChunk /\ IdleTag

SpecAssign  == InitSpecAssign /\ [][NextAssign]_vars
SpecMerge   == InitSpecMerge /\ [][NextMerge]_vars
SpecQA      == InitSpecQA /\ [][NextQA]_vars
SpecTable   == InitSpecTable /\ [][NextTable]_vars
SpecOutline == InitSpecOutline /\ [][NextOutline]_vars

InitSpecChunk == IdleAssign /\ IdleMerge /\ IdleQA /\ IdleTable /\ IdleOutline
                   /\ InitChunk /\ IdleTag
InitSpecTag   == IdleAssign /\ IdleMerge /\ IdleQA /\ IdleTable /\ IdleOutline
                   /\ IdleChunk /\ InitTag

SpecChunk == InitSpecChunk /\ [][NextChunk]_vars
SpecTag   == InitSpecTag /\ [][NextTag]_vars

\* the PDF path from the levels to the section ids: lines 214-238
NextLevels ==
    \/ NextOutline
    \/ StartAssign /\ UNCHANGED <<mergeVars, qaVars, tableVars, chunkVars, tagVars>>
    \/ NextAssign
SpecLevels == InitSpecOutline /\ [][NextLevels]_vars

\* the tables on both paths of chunk: a PDF (lines 188-278) or a DOCX (280-320)
InitSpecTables == InitSpecMerge \/ InitSpecTable
SpecTables == InitSpecTables /\ [][NextMerge \/ NextTable]_vars

----------------------------------------------------------------------------
(* Chunk Merger: claims C1 to C4, under SpecMerge *)

\* the merge loop is about to handle queue[k + 1]
AtItem == m_pc = "merge" /\ k < Len(queue)

\* the token counts of the parts of a chunk
PieceTokens(c) == [j \in 1..Len(c) |-> NumTokens(c[j].txt)]

\* C1 as stated: with merging enabled and a chunk open at tokenCount 32, an item
\* of the section lastSectionId starts a new chunk.
C1_SameSectionAt32StartsChunk ==
    [][ (AtItem /\ ~using_vision_parser /\ chunks # <<>> /\ tk_cnt = 32
            /\ queue[k + 1].sec_id = last_sid)
        => Len(chunks') = Len(chunks) + 1 ]_vars

\* C1 amended: with merging enabled and a chunk open at tokenCount 32, an item of
\* the section lastSectionId (or a table) is merged into the open chunk, and an
\* item of another section starts a new chunk.
C1_MergeAt32 ==
    [][ (AtItem /\ ~using_vision_parser /\ chunks # <<>> /\ tk_cnt = 32)
        => IF queue[k + 1].sec_id = last_sid \/ queue[k + 1].sec_id = -1
           THEN /\ Len(chunks') = Len(chunks)
                /\ Last(chunks') = Append(Last(chunks), Piece(queue[k + 1]))
           ELSE /\ Len(chunks') = Len(chunks) + 1
                /\ Last(chunks') = <<Piece(queue[k + 1])>> ]_vars

\* an item of 32 tokens of the section lastSectionId was merged at tokenCount 32
C1_Witness ==
    /\ m_pc = "merge" /\ ~using_vision_parser /\ k >= 2
    /\ queue[k].sec_id = last_sid
    /\ NumTokens(queue[k].txt) = 32
    /\ tk_cnt = 64
    /\ Len(Last(chunks)) >= 2
    /\ Last(Last(chunks)) = Piece(queue[k])

\* C2 as stated: when every block has section id 0 (and there is a block), the
\* chunks are the items consumed, one chunk each, tables included.
C2_AllBlocksZeroOneChunkEach ==
    (/\ m_pc \in {"merge", "done"}
     /\ \E b \in 1..Len(queue) : queue[b].sec_id # -1
     /\ \A j \in 1..Len(queue) : queue[j].sec_id # -1 => queue[j].sec_id = 0)
    => chunks = [j \in 1..k |-> <<Piece(queue[j])>>]

\* C2 amended: when every item handed to the merger has section id 0 (every
\* block has section id 0 and no table has rows), the chunks are the items
\* consumed, one chunk each, whatever the token lengths.
C2_AllItemsZeroOneChunkEach ==
    (m_pc \in {"merge", "done"} /\ \A j \in 1..Len(queue) : queue[j].sec_id = 0)
    => chunks = [j \in 1..k |-> <<Piece(queue[j])>>]

\* three blocks of section 0 and 16 tokens each, all consumed: three chunks
C2_Witness ==
    /\ m_pc = "done" /\ Len(queue) = 3 /\ Len(chunks) = 3
    /\ \A j \in 1..3 : queue[j].sec_id = 0 /\ NumTokens(queue[j].txt) = 16

\* C3: the parts of the chunks, read chunk after chunk, are the items consumed
\* in sorted order, and no chunk is empty: every chunk is a contiguous run of the
\* sorted sequence and the chunks are in the order of their runs.
C3_ChunksAreContiguousRuns ==
    m_pc \in {"merge", "done"}
    => /\ Flatten(chunks) = [j \in 1..k |-> Piece(queue[j])]
       /\ \A c \in 1..Len(chunks) : chunks[c] # <<>>

\* the sort moved an item, and a later chunk than the first holds two items
C3_Witness ==
    /\ m_pc = "done" /\ Len(queue) = 3 /\ Len(chunks) = 2
    /\ Len(chunks[2]) = 2
    /\ queue # sections

\* C4: the running tokenCount is the sum of the token lengths of the items of
\* the open chunk, and in every chunk the items before any merged item sum to
\* less than 1024 tokens (in particular all items but the last).
C4_TokenCountBound ==
    m_pc \in {"merge", "done"}
    => /\ tk_cnt = (IF chunks = <<>> THEN 0 ELSE SumSeq(PieceTokens(Last(chunks))))
       /\ \A c \in 1..Len(chunks) : \A n \in 1..(Len(chunks[c]) - 1) :
             SumSeq(SubSeq(PieceTokens(chunks[c]), 1, n)) < 1024

\* a chunk of three items that passed 1024 tokens with its last item
C4_Witness ==
    /\ m_pc = "merge" /\ chunks # <<>>
    /\ Len(Last(chunks)) = 3
    /\ tk_cnt > 1024
    /\ SumSeq(SubSeq(PieceTokens(Last(chunks)), 1, 2)) = 1008

----------------------------------------------------------------------------
(* Section Assigner: claim C5, under SpecAssign *)

\* C5: the section ids assigned so far start at 0, never decrease and grow by at
\* most 1 from one block to the next; there is one for each block handled.
C5_SecIdsStaircase ==
    /\ Len(sec_ids) = a_i
    /\ sec_ids # <<>> => sec_ids[1] = 0
    /\ \A j \in 2..Len(sec_ids) : sec_ids[j] - sec_ids[j - 1] \in {0, 1}

\* four blocks handled, the first at a heading level, with steps of 0 and of 1
C5_Witness ==
    /\ a_i = 4 /\ Len(levels) = 4
    /\ levels[1] <= most_level
    /\ sec_ids = <<0, 1, 1, 2>>

----------------------------------------------------------------------------
(* Outline classifier: claim C6, under SpecOutline *)

\* C6: on the outline path every block handled has appended exactly one level,
\* which is the level of an outline entry or max_lvl + 1, and the assertion of
\* line 232 does not fail.
C6_OneLevelPerBlock ==
    /\ o_pc = "match" =>
          /\ Len(o_levels) = o_i
          /\ \A j \in 1..Len(o_levels) :
                \/ o_levels[j] = max_lvl + 1
                \/ \E e \in 1..Len(outlines) : o_levels[j] = outlines[e].lvl
    /\ o_pc = "outline_ok" => Len(o_levels) = Len(o_sections)
    /\ o_pc # "AssertionError"

\* the assertion passed on the outline path, with a block that matched two
\* entries of the outline and a block that matched none
C6_Witness ==
    /\ o_pc = "outline_ok" /\ Len(o_sections) = 2 /\ Len(outlines) = 2
    /\ Matches(outlines[1].t, o_sections[1]) /\ Matches(outlines[2].t, o_sections[1])
    /\ \A e \in 1..2 : ~Matches(outlines[e].t, o_sections[2])
    /\ o_levels = <<outlines[1].lvl, max_lvl + 1>>

----------------------------------------------------------------------------
(* Q/A Reconstructor: claims C7 and C8, under SpecQA *)

\* the step reads a paragraph that is a question (a heading of level 1..6)
HeadingArrives ==
    /\ q_pc = "read"
    /\ Len(paras') = Len(paras) + 1
    /\ IsQuestion(QuestionLevel(Last(paras'), q_from_page, q_to_page, pn)[1])

\* the unit keyed by the heading path qs, root first
Unit(qs, answer, image) == [text |-> Join(qs) \o <<"\n">> \o answer, image |-> image]

\* the stream H1(1), P1, H2(2), P2, H3(1), all in the page range
ExampleStream ==
    /\ q_from_page = 0
    /\ [j \in 1..Len(paras) |-> paras[j].text] = <<"H1", "P1", "H2", "P2", "H3">>

\* C7 as stated: a heading that arrives while the answer buffer or the pending
\* image is not empty emits one unit keyed by the heading stack as it stood, with
\* the buffer and the image, and both are reset.
C7_HeadingAlwaysEmits ==
    [][ (HeadingArrives /\ (NonEmptyStr(last_answer) \/ last_image # NoImage))
        => /\ ti_list' = Append(ti_list, Unit(question_stack, last_answer, last_image))
           /\ last_answer' = <<>>
           /\ last_image' = NoImage ]_vars

\* C7 amended: a heading that arrives while the answer buffer or the pending
\* image is not empty resets both; it emits one unit keyed by the heading stack
\* as it stood, with the buffer and the image, when that stack is not empty, and
\* nothing when it is empty.  The stream H1, P1, H2, P2, H3 leaves exactly the
\* units keyed H1 (answer P1) and H1/H2 (answer P2).
C7_HeadingEmitsUnderOpenPath ==
    /\ [][ (HeadingArrives /\ (NonEmptyStr(last_answer) \/ last_image # NoImage))
            => /\ ti_list' = IF question_stack # <<>>
                             THEN Append(ti_list,
                                         Unit(question_stack, last_answer, last_image))
                             ELSE ti_list
               /\ last_answer' = <<>>
               /\ last_image' = NoImage ]_vars
    /\ [](ExampleStream =>
            ti_list = << [text |-> <<"H1", "\n", "\n", "P1">>, image |-> NoImage],
                         [text |-> <<"H1", "\n", "H2", "\n", "\n", "P2">>,
                          image |-> NoImage] >>)

\* the example stream has been read: two units, H3 alone on the stack
C7_Witness ==
    /\ ExampleStream /\ q_pc = "read"
    /\ Len(ti_list) = 2
    /\ ti_list[2] = Unit(<<"H1", "H2">>, <<"\n", "P2">>, NoImage)
    /\ question_stack = <<"H3">> /\ level_stack = <<1>>
    /\ last_answer = <<>>

\* the step ends the stream
StreamEnds == q_pc = "read" /\ q_pc' = "done"

\* C8 as stated: at the end of the stream a unit keyed by the heading stack is
\* emitted exactly when the answer buffer is not empty.
C8_EndAlwaysEmits ==
    [][ StreamEnds
        => ti_list' = IF NonEmptyStr(last_answer)
                      THEN Append(ti_list, Unit(question_stack, last_answer, last_image))
                      ELSE ti_list ]_vars

\* C8 amended: at the end of the stream a unit keyed by the heading stack, with
\* the buffer and the pending image, is emitted exactly when the answer buffer
\* and the heading stack are both not empty.
C8_EndEmitsUnderOpenPath ==
    [][ StreamEnds
        => ti_list' = IF NonEmptyStr(last_answer) /\ question_stack # <<>>
                      THEN Append(ti_list, Unit(question_stack, last_answer, last_image))
                      ELSE ti_list ]_vars

\* the stream ended with a buffer, a pending image and two open headings
C8_Witness ==
    /\ q_pc = "done"
    /\ NonEmptyStr(last_answer) /\ last_image # NoImage
    /\ Len(question_stack) = 2
    /\ ti_list # <<>>
    /\ Last(ti_list) = Unit(question_stack, last_answer, last_image)

----------------------------------------------------------------------------
(* Table Normalizer: claim C9, under SpecTable; claim C10, under SpecTables *)

\* the cells of each row of a markup string
RECURSIVE HtmlRowsAcc(_, _)
HtmlRowsAcc(html, acc) ==
    IF html = <<>> THEN acc
    ELSE IF html[1].el = "<tr>" THEN HtmlRowsAcc(Tail(html), Append(acc, <<>>))
    ELSE IF html[1].el = "td"
         THEN HtmlRowsAcc(Tail(html), [acc EXCEPT ![Len(acc)] = Append(@, html[1])])
    ELSE HtmlRowsAcc(Tail(html), acc)
HtmlRows(html) == HtmlRowsAcc(html, <<>>)

SpanOf(td) == IF "colspan" \in DOMAIN td THEN td.colspan ELSE 1

\* the emitted cells e are the maximal runs of equal texts of cells, in order
IsRunsOf(e, cells) ==
    LET spans == [j \in 1..Len(e) |-> SpanOf(e[j])] IN
      /\ SumSeq(spans) = Len(cells)
      /\ \A j \in 1..Len(e) :
            /\ spans[j] >= 1
            /\ "colspan" \in DOMAIN e[j] => spans[j] > 1
            /\ \A i \in 1..spans[j] :
                  /\ SumSeq(SubSeq(spans, 1, j - 1)) + i <= Len(cells)
                  /\ cells[SumSeq(SubSeq(spans, 1, j - 1)) + i] = e[j].text
      /\ \A j \in 1..(Len(e) - 1) : e[j].text # e[j + 1].text

\* C9: every row of every table is emitted as one cell for each maximal run of
\* adjacent cells with the same text, in order, with the length of the run as its
\* span and no span attribute for a run of one cell.
C9_RowsAreMaximalRuns ==
    /\ Len(d_tbls) = Len(doc_tables)
    /\ \A t \in 1..Len(d_tbls) :
          LET rows == HtmlRows(d_tbls[t].rows) IN
            /\ Len(rows) = Len(doc_tables[t])
            /\ \A r \in 1..Len(rows) : IsRunsOf(rows[r], doc_tables[t][r])

\* the table [[a, a, b]]: one row, a with span 2 and b without a span
C9_Witness ==
    /\ Len(doc_tables) = 1
    /\ doc_tables[1] = << <<"a", "a", "b">> >>
    /\ d_tbls[1].rows = << El("<table>"), El("<tr>"),
                           [el |-> "td", colspan |-> 2, text |-> "a"],
                           [el |-> "td", text |-> "b"],
                           El("</tr>"), El("</table>") >>

\* a table of a DOCX has textual content when one of its cells has a text
HasText(tb) == \E r \in 1..Len(tb) : \E c \in 1..Len(tb[r]) : tb[r][c] # ""

NumWithText(dt) == Cardinality({j \in 1..Len(dt) : HasText(dt[j])})
NumWithRows(tb) == Cardinality({j \in 1..Len(tb) : tb[j].rows # ""})
NumTableItems(q) == Cardinality({j \in 1..Len(q) : q[j].sec_id = TableSection})

\* lines 241-244: once the tables are appended, the items to merge hold one
\* table item for each table with rows, and none without a text
PdfEmptyTablesNotMerged ==
    m_pc \in {"merge", "done"} =>
        /\ NumTableItems(queue) = NumWithRows(tbls)
        /\ \A j \in 1..Len(queue) : queue[j].sec_id = TableSection => queue[j].txt # ""

\* C10 as stated: on both paths a table with no textual content is dropped; it
\* is not among the items merged on the PDF path, and it is not in the output of
\* the normalizer on the DOCX path.
C10_EmptyTablesDroppedOnBothPaths ==
    /\ PdfEmptyTablesNotMerged
    /\ Len(d_tbls) = NumWithText(doc_tables)

\* C10 amended: on the PDF path a table without rows is not added to the items
\* merged; on the DOCX path the output of the normalizer holds one markup block
\* for every table read, with or without textual content, and every block opens
\* with <table> and closes with </table>.
C10_EmptyTablesDroppedOnPdfPath ==
    /\ PdfEmptyTablesNotMerged
    /\ Len(d_tbls) = Len(doc_tables)
    /\ \A t \in 1..Len(d_tbls) :
          /\ Len(d_tbls[t].rows) >= 2
          /\ d_tbls[t].rows[1] = El("<table>")
          /\ d_tbls[t].rows[Len(d_tbls[t].rows)] = El("</table>")

\* a DOCX whose only table is one row of two empty cells: the table has no
\* textual content and the output of the normalizer holds its markup
C10_Witness ==
    /\ t_pc = "done"
    /\ doc_tables = << << <<"", "">> >> >>
    /\ ~HasText(doc_tables[1])
    /\ Len(d_tbls) = 1
    /\ d_tbls[1].rows = << El("<table>"), El("<tr>"),
                           [el |-> "td", colspan |-> 2, text |-> ""],
                           El("</tr>"), El("</table>") >>

----------------------------------------------------------------------------
(* Dispatch on the file name: claim C11, under SpecChunk *)

\* the file name without the newline that may end it
Stripped(name) ==
    IF name # <<>> /\ name[Len(name)] = "\n" THEN SubSeq(name, 1, Len(name) - 1)
    ELSE name

\* the last characters of name are ext, ignoring case
HasExtension(name, ext) ==
    /\ Len(name) >= Len(ext)
    /\ \A j \in 1..Len(ext) : Lower(name[Len(name) - Len(ext) + j]) = ext[j]

\* the file name has one of the extensions .pdf, .doc and .docx
Recognized(name) ==
    \/ HasExtension(Stripped(name), <<".", "p", "d", "f">>)
    \/ HasExtension(Stripped(name), <<".", "d", "o", "c">>)
    \/ HasExtension(Stripped(name), <<".", "d", "o", "c", "x">>)

\* C11: a call with a file name whose extension is none of .pdf, .doc and .docx
\* (in any case) ends with the unsupported-format error and has invoked no
\* parser; a call with one of these extensions never ends with that error, and
\* has invoked a parser.
C11_UnsupportedFormat ==
    /\ [](c_out = "NotImplementedError" => ~Recognized(filename) /\ parsers = <<>>)
    /\ [](c_out = "parsed" => Recognized(filename) /\ parsers # <<>>)
    /\ [][ c_out = "called" /\ ~Recognized(filename)
             => c_out' = "NotImplementedError" /\ parsers' = <<>> ]_vars
    /\ [][ c_out = "called" /\ Recognized(filename) => c_out' = "parsed" ]_vars

\* the call with the name ".pdfx" was refused before any parser was invoked
C11_Witness ==
    /\ filename = <<".", "p", "d", "f", "x">>
    /\ c_out = "NotImplementedError"
    /\ parsers = <<>>

----------------------------------------------------------------------------
(* Geometry Tagger: claims C12 and C13, under SpecTag *)

\* t, in tenths, is a tenth nearest to x, in eighths
NearestTenth(x, t) == 5 * x - 4 * t <= 2 /\ 4 * t - 5 * x <= 2

\* C12: the tag of a fragment is the empty string exactly when its five fields
\* are all zero; otherwise it carries the five fields in the order page, left,
\* right, top, bottom: the page as it is, each coordinate as a nearest tenth.
C12_EmptyTagIffAllZero ==
    g_pc = "returned" =>
        /\ g_tag = <<>> <=> \A j \in 1..5 : g_pos[j] = 0
        /\ g_tag # <<>> =>
              /\ Len(g_tag) = 5
              /\ g_tag[1] = g_pos[1]
              /\ \A j \in 2..5 : NearestTenth(g_pos[j], g_tag[j])

\* the fragment on page 0 with 0.125 as its bottom only: a tag with five fields
C12_Witness ==
    /\ g_pc = "returned"
    /\ g_pos = <<0, 0, 0, 0, 1>>
    /\ g_tag = <<0, 0, 0, 0, 1>>

\* the fragment (3, 10.25, 50.75, 100.0, ...) of the example, in eighths
IsExample(pos) == pos[1] = 3 /\ pos[2] = 82 /\ pos[3] = 406 /\ pos[4] = 800

\* C13 as stated: the fields of the fragment (3, 10.25, 50.75, 100.0, ...) are
\* tagged 3, 10.3, 50.8 and 100.0.
C13_ExampleRoundsHalfUp ==
    g_pc = "returned" /\ IsExample(g_pos) =>
        SubSeq(g_tag, 1, 4) = <<3, 103, 508, 1000>>

\* C13 amended: each coordinate is formatted with one fractional digit, as the
\* nearest tenth and, when two tenths are equally near, the one with the even
\* digit: the fragment (3, 10.25, 50.75, 100.0, 120.375) is tagged 3, 10.2,
\* 50.8, 100.0, 120.4.
C13_OneDigitHalfEven ==
    g_pc = "returned" /\ g_tag # <<>> =>
        /\ \A j \in 2..5 :
              /\ NearestTenth(g_pos[j], g_tag[j])
              /\ (5 * g_pos[j]) % 4 = 2 => g_tag[j] % 2 = 0
        /\ g_pos = <<3, 82, 406, 800, 963>> => g_tag = <<3, 102, 508, 1000, 1204>>

\* the fragment of the example was tagged
C13_Witness ==
    /\ g_pc = "returned"
    /\ g_pos = <<3, 82, 406, 800, 963>>
    /\ g_tag = <<3, 102, 508, 1000, 1204>>

----------------------------------------------------------------------------
(* Chunk Merger: claims C14, C15 and C19, under SpecMerge *)

\* the merge loop handles queue[k + 1] in this step
HandlesItem == AtItem /\ k' = k + 1

\* C14 as stated: after any item whose sectionId is not -1, merged or not,
\* lastSectionId is that item's sectionId.
C14_LastSidFollowsEveryItem ==
    [][ HandlesItem /\ queue[k + 1].sec_id # -1
          => last_sid' = queue[k + 1].sec_id ]_vars

\* C14 amended: after an item whose sectionId is not -1 that started a new
\* chunk, lastSectionId is that item's sectionId; an item that was merged into
\* the open chunk, and a table, leave lastSectionId as it was.
C14_LastSidFollowsChunkStart ==
    [][ HandlesItem =>
          IF Len(chunks') > Len(chunks) /\ queue[k + 1].sec_id # -1
          THEN last_sid' = queue[k + 1].sec_id
          ELSE last_sid' = last_sid ]_vars

\* a block of section 1 was merged into the chunk that a block of section 0
\* started, and lastSectionId is still 0
C14_Witness ==
    /\ m_pc = "merge"
    /\ k = 2
    /\ Len(chunks) = 1
    /\ queue[1].sec_id = 0
    /\ queue[2].sec_id = 1
    /\ last_sid = 0

\* the step appended queue[k + 1] to the open chunk, or opened a chunk with it
MergedItem ==
    /\ chunks # <<>>
    /\ Len(chunks') = Len(chunks)
    /\ chunks' = [chunks EXCEPT ![Len(chunks)] = Append(@, Piece(queue[k + 1]))]
StartedChunk == chunks' = Append(chunks, <<Piece(queue[k + 1])>>)

\* C15: with merging enabled the item is merged into the open chunk exactly when
\* a chunk is open and tokenCount < 32, or tokenCount < 1024 and the item is of
\* the section lastSectionId or is a table; otherwise it starts a new chunk.
\* So a table is merged whenever tokenCount < 1024, and any item whenever
\* tokenCount < 32.
C15_MergeRule ==
    [][ HandlesItem /\ ~using_vision_parser =>
          LET x == queue[k + 1]
              rule == \/ tk_cnt < 32
                      \/ /\ tk_cnt < 1024
                         /\ (x.sec_id = last_sid \/ x.sec_id = -1)
          IN  /\ (chunks # <<>> /\ rule) => MergedItem
              /\ ~(chunks # <<>> /\ rule) => StartedChunk
              /\ (chunks # <<>> /\ x.sec_id = -1 /\ tk_cnt < 1024) => MergedItem
              /\ (chunks # <<>> /\ tk_cnt < 32) => MergedItem ]_vars

\* a table was merged into a chunk that held 32 tokens of a block
C15_Witness ==
    /\ m_pc = "merge"
    /\ ~using_vision_parser
    /\ k = 2
    /\ queue[1].txt = "m"
    /\ queue[1].sec_id = 0
    /\ queue[2].sec_id = -1
    /\ Len(chunks) = 1
    /\ Len(chunks[1]) = 2

----------------------------------------------------------------------------
(* Section Assigner: claim C16, under SpecAssign *)

\* block i (1-based) is a boundary: its level is at most the pivot level and
\* differs from the level of block i - 1
IsBoundary(i) == levels[i] <= most_level /\ levels[i] # levels[i - 1]

\* C16: the section id of block i is one more than the section id of block
\* i - 1 exactly when the level of block i is at most the pivot level and differs
\* from the level of block i - 1; every other block has the section id of its
\* predecessor, and the first block has section id 0.
C16_IncrementIffBoundary ==
    \A i \in 1..Len(sec_ids) :
        IF i = 1 THEN sec_ids[i] = 0
        ELSE IF IsBoundary(i) THEN sec_ids[i] = sec_ids[i - 1] + 1
        ELSE sec_ids[i] = sec_ids[i - 1]

\* levels 1, 1, 0, 2 with pivot 1: the second block repeats a heading level, the
\* third is a boundary, the fourth is body text
C16_Witness ==
    /\ levels = <<1, 1, 0, 2>>
    /\ most_level = 1
    /\ sec_ids = <<0, 0, 1, 1>>

----------------------------------------------------------------------------
(* Outline path and Section Assigner: claim C17, under SpecLevels *)

\* block i (1-based) matches no entry of the outline
Unmatched(i) == \A e \in 1..Len(outlines) : ~Matches(outlines[e].t, o_sections[i])

\* C17: on the outline path a block that matches no entry has the level
\* max_lvl + 1, which is greater than the pivot level max(0, max_lvl - 1), and
\* it has the section id of the block before it (0 when it is the first).
C17_UnmatchedNeverBoundary ==
    o_pc = "outline_assign" =>
        /\ most_level = Max(0, max_lvl - 1)
        /\ \A i \in 1..Len(sec_ids) :
              Unmatched(i) =>
                  /\ levels[i] = max_lvl + 1
                  /\ levels[i] > most_level
                  /\ sec_ids[i] = IF i = 1 THEN 0 ELSE sec_ids[i - 1]

\* the block "ab" matched the entry of level 1 and the block "a" none: levels
\* 1 and 2, pivot 0, and both blocks in section 0
C17_Witness ==
    /\ o_pc = "outline_assign"
    /\ o_sections = << <<"a", "b">>, <<"a">> >>
    /\ outlines = << [t |-> <<"a", "b">>, lvl |-> 1], [t |-> <<>>, lvl |-> 0] >>
    /\ levels = <<1, 2>>
    /\ most_level = 0
    /\ sec_ids = <<0, 0>>

----------------------------------------------------------------------------
(* Outline classifier: claim C18, under SpecOutline *)

\* the character bigrams of a text
AllBigrams(s) == { <<s[i], s[i + 1]>> : i \in 1..(Len(s) - 1) }

\* the Jaccard similarity of the bigram sets of the first min(len) characters
\* of both texts is greater than 0.8
JaccardOfFirstK(t, txt) ==
    LET n == Min(Len(t), Len(txt))
        A == AllBigrams(SubSeq(t, 1, n))
        B == AllBigrams(SubSeq(txt, 1, n))
    IN  5 * Cardinality(A \cap B) > 4 * Cardinality(A \cup B)

\* the bigrams common to the entry and to the first len(entry) + 1 characters of
\* the block are more than 0.8 of the larger of the two sets (of 1 at least)
OverlapOfLarger(t, txt) ==
    LET A == AllBigrams(t)
        B == AllBigrams(SubSeq(txt, 1, Min(Len(t) + 1, Len(txt))))
    IN  5 * Cardinality(A \cap B) > 4 * Max(Max(Cardinality(A), Cardinality(B)), 1)

\* the level of the first entry among es, or max_lvl + 1 when es is empty
FirstLevelAmong(es) ==
    IF es = {} THEN max_lvl + 1
    ELSE outlines[CHOOSE e \in es : \A f \in es : e <= f].lvl

\* C18 as stated: a block has the level of the first entry whose bigram set has
\* a Jaccard similarity above 0.8 with the block's, both over the first
\* min(length) characters, and max_lvl + 1 when there is none.
C18_LevelByJaccardOfFirstK ==
    o_pc \in {"match", "outline_ok"} =>
        \A i \in 1..Len(o_levels) :
            o_levels[i] = FirstLevelAmong(
                {e \in 1..Len(outlines) : JaccardOfFirstK(outlines[e].t, o_sections[i])})

\* C18 amended: a block has the level of the first entry for which the bigrams
\* common to the entry's text and to the first len(entry) + 1 characters of the
\* block are more than 0.8 of the larger of the two bigram sets, and
\* max_lvl + 1 when there is none.
C18_LevelByOverlapOfLarger ==
    o_pc \in {"match", "outline_ok"} =>
        \A i \in 1..Len(o_levels) :
            o_levels[i] = FirstLevelAmong(
                {e \in 1..Len(outlines) : OverlapOfLarger(outlines[e].t, o_sections[i])})

\* the block "abc" has the level of the entry "abc", the second of the outline,
\* and not the level of the entry "ab" before it
C18_Witness ==
    /\ o_pc = "outline_ok"
    /\ o_sections = << <<"a", "b", "c">> >>
    /\ outlines = << [t |-> <<"a", "b">>, lvl |-> 0], [t |-> <<"a", "b", "c">>, lvl |-> 2] >>
    /\ o_levels = <<2>>

\* (page, top, left) of the first fragment of an item
ReadingKey(x) == <<x.poss[1][1], x.poss[1][4], x.poss[1][2]>>

\* a comes before b, or with b, in the lexicographic order
LexLeq(a, b) ==
    \/ a[1] < b[1]
    \/ a[1] = b[1] /\ a[2] < b[2]
    \/ a[1] = b[1] /\ a[2] = b[2] /\ a[3] <= b[3]

\* q is s reordered by p, a permutation of the positions
IsReordering(q, s, p) ==
    /\ \A i, j \in 1..Len(s) : i # j => p[i] # p[j]
    /\ \A i \in 1..Len(s) : q[i] = s[p[i]]

\* C19: the items are consumed in non-decreasing lexicographic order of (page,
\* top, left) of their first fragment, items with equal keys in their input
\* order, the blocks in source order before the tables; the items of the chunks,
\* read in output order, are the items consumed, in that order.
C19_ReadingOrder ==
    m_pc \in {"merge", "done"} =>
        /\ Len(queue) = Len(sections)
        /\ \A i, j \in 1..Len(sections) :
              (i < j /\ sections[i].sec_id = -1) => sections[j].sec_id = -1
        /\ \A i \in 1..(Len(queue) - 1) :
              LexLeq(ReadingKey(queue[i]), ReadingKey(queue[i + 1]))
        /\ \E p \in [1..Len(sections) -> 1..Len(sections)] :
              /\ IsReordering(queue, sections, p)
              /\ \A i, j \in 1..Len(queue) :
                    (i < j /\ ReadingKey(queue[i]) = ReadingKey(queue[j])) => p[i] < p[j]
        /\ Flatten(chunks) = [j \in 1..k |-> Piece(queue[j])]

\* two blocks and a table were consumed: the second block (top 1.0) first, then
\* the table (top 1.5), then the first block (top 2.0)
C19_Witness ==
    /\ m_pc = "merge"
    /\ k = 3
    /\ Len(sections) = 3
    /\ sections[1].poss = << <<1, 8, 80, 16, 26>> >>
    /\ sections[2].poss[1] = <<1, 16, 80, 8, 13>>
    /\ sections[3].sec_id = -1
    /\ queue = <<sections[2], sections[3], sections[1]>>

----------------------------------------------------------------------------
(* Q/A Reconstructor: claim C20, under SpecQA *)

\* the loop reads a paragraph in this step: the last of paras'
ReadsParagraph == Len(paras') = Len(paras) + 1

\* the runs of a paragraph that hold a page-break marker
NumBreaks(runs) == Cardinality({j \in 1..Len(runs) : runs[j] # "text"})

\* C20: a paragraph read while the page counter is outside from_page..to_page - 1
\* leaves the heading stack and the level stack as they were, heading or not,
\* and the page counter still rises by one for each of its runs with a
\* page-break marker; the page counter never decreases and a paragraph raises
\* it by at most one for each run.
C20_OutOfRangeSkipsStacks ==
    /\ [][ ReadsParagraph /\ ~(q_from_page <= pn /\ pn < q_to_page) =>
             /\ question_stack' = question_stack
             /\ level_stack' = level_stack
             /\ pn' = pn + NumBreaks(Last(paras').runs) ]_vars
    /\ [][ pn' >= pn ]_vars
    /\ [][ ReadsParagraph => pn' - pn <= Len(Last(paras').runs) ]_vars
    /\ [][ ~ReadsParagraph => pn' = pn ]_vars

\* with pages 1..1 requested, the heading H4 was read on page 0: the stacks are
\* empty and its page break has raised the page counter
C20_Witness ==
    /\ q_from_page = 1
    /\ paras = << Para("H4", 3, NoImage, <<"both", "text">>) >>
    /\ pn = 1
    /\ question_stack = <<>>
    /\ level_stack = <<>>

----------------------------------------------------------------------------
(* Q/A Reconstructor: claims C21, C22, C25 and C26, under SpecQA *)

\* the paragraph read in this step is handled as a heading of level 1..6
ReadsHeading ==
    /\ ReadsParagraph
    /\ q_from_page <= pn /\ pn < q_to_page
    /\ Last(paras').text # ""
    /\ Last(paras').level \in 1..6

\* the stacks have the same length, at most 6, and the levels are levels of
\* headings, strictly increasing from the bottom to the top
StacksWellFormed ==
    /\ Len(question_stack) = Len(level_stack)
    /\ Len(level_stack) <= 6
    /\ \A j \in 1..Len(level_stack) : level_stack[j] \in 1..6
    /\ \A j \in 1..(Len(level_stack) - 1) : level_stack[j] < level_stack[j + 1]

\* C21: the heading stack and the level stack always have the same length, of 6
\* at most, and the level stack is strictly increasing from bottom to top; right
\* after a heading of level L, L is on top of what was open below level L, and
\* every open level at or above L has been popped.
C21_StacksStrictlyIncreasing ==
    /\ []StacksWellFormed
    /\ [][ ReadsHeading =>
             LET L    == Last(paras').level
                 kept == Cardinality({j \in 1..Len(level_stack) : level_stack[j] < L})
             IN  /\ level_stack' = Append(SubSeq(level_stack, 1, kept), L)
                 /\ question_stack' =
                        Append(SubSeq(question_stack, 1, kept), Last(paras').text)
                 /\ \A j \in 1..kept : level_stack[j] < L ]_vars

\* the headings of levels 1, 2 and 3 were open when a heading of level 1 came:
\* it is the only one left
C21_Witness ==
    /\ Len(paras) = 4
    /\ paras[1].text = "H1" /\ paras[2].text = "H2"
    /\ paras[3].text = "H4" /\ paras[4].text = "H3"
    /\ level_stack = <<1>>
    /\ question_stack = <<"H3">>

\* the paragraph read in this step is not handled as a heading, has a picture,
\* and a description collaborator is configured
ReadsPictureWithCollaborator ==
    /\ ReadsParagraph
    /\ vision_model
    /\ Last(paras').pic # NoImage
    /\ ~ReadsHeading

\* the text of the paragraph read as the loop keeps it: empty outside the pages
\* requested
KeptText ==
    IF q_from_page <= pn /\ pn < q_to_page THEN Last(paras').text ELSE ""

\* image b pasted below image a: as wide as the wider, as high as both
Stacked(a, b) ==
    IF a = NoImage THEN b
    ELSE IF b = NoImage THEN a
    ELSE <<Max(a[1], b[1]), a[2] + b[2]>>

\* C22: a paragraph with a picture that is not a heading, read with a
\* collaborator configured, leaves the stream running and either appends its
\* text and the description and keeps the pending image (the call succeeded),
\* or appends its text alone and stacks the picture below the pending image (the
\* call failed), which is what a paragraph read without a collaborator does.
C22_DescribeFailureFallsBack ==
    /\ [][ ReadsPictureWithCollaborator =>
             /\ q_pc' = "read"
             /\ \/ /\ last_answer' = last_answer
                                       \o <<"\n", KeptText, "\n[Image Content]: ", ImageText>>
                   /\ last_image' = last_image
                \/ /\ last_answer' = last_answer \o <<"\n", KeptText>>
                   /\ last_image' = Stacked(last_image, Last(paras').pic) ]_vars
    /\ [][ ReadsParagraph /\ ~vision_model /\ ~ReadsHeading =>
             /\ last_answer' = last_answer \o <<"\n", KeptText>>
             /\ last_image' = Stacked(last_image, Last(paras').pic) ]_vars

\* two paragraphs with a picture were read with a collaborator: the first call
\* succeeded, the second failed and left its picture as the pending image
C22_Witness ==
    /\ vision_model
    /\ Len(paras) = 2
    /\ paras[1].text = "" /\ paras[2].text = "H7"
    /\ last_answer = <<"\n", "", "\n[Image Content]: ", ImageText, "\n", "H7">>
    /\ last_image = <<1, 2>>
    /\ q_pc = "read"

----------------------------------------------------------------------------
(* Chunk Merger: claims C23 and C24, under SpecMerge *)

\* how often v occurs in the sequence s
Occurrences(s, v) == Cardinality({j \in 1..Len(s) : s[j] = v})

\* what a block contributes to a chunk, and what a table does: its rows and its
\* fragments on the page counted from from_page - 1
BlockPieces ==
    LET IsBlock(x) == x.sec_id # -1
        blocks == SelectSeq(sections, IsBlock)
    IN  [j \in 1..Len(blocks) |-> Piece(blocks[j])]
TablePieces ==
    LET HasRows(tb) == tb.rows # ""
        tables == SelectSeq(tbls, HasRows)
    IN  [j \in 1..Len(tables) |->
            [txt |-> tables[j].rows,
             poss |-> JoinTags([f \in 1..Len(tables[j].poss) |->
                          <<tables[j].poss[f][1] + 1 - from_page, tables[j].poss[f][2],
                            tables[j].poss[f][3], tables[j].poss[f][4],
                            tables[j].poss[f][5]>>])]]

\* C23: when the loop is over, every block and every table with rows is in
\* exactly one chunk, as often as it was handed in, and nothing else is; no
\* chunk is empty, and without an item there is no chunk.
C23_ItemsPartitioned ==
    m_pc = "done" =>
        LET out == Flatten(chunks)
            inp == BlockPieces \o TablePieces
        IN  /\ Len(out) = Len(inp)
            /\ \A j \in 1..Len(inp) : Occurrences(out, inp[j]) = Occurrences(inp, inp[j])
            /\ \A c \in 1..Len(chunks) : chunks[c] # <<>>
            /\ inp = <<>> => chunks = <<>>

\* two blocks that are the same and a table with rows: one chunk that holds the
\* block twice and the table once
C23_Witness ==
    /\ m_pc = "done"
    /\ Len(sections) = 3
    /\ sections[1] = sections[2]
    /\ sections[3].sec_id = -1
    /\ Len(chunks) = 1
    /\ Occurrences(chunks[1], Piece(sections[1])) = 2
    /\ Occurrences(chunks[1], Piece(sections[3])) = 1

\* the place in queue of the item that started chunk c
StartOf(c) == 1 + SumSeq([j \in 1..(c - 1) |-> Len(chunks[j])])

\* the places in queue of the items with a section id that started a chunk
BlockStarts == {i \in {StartOf(c) : c \in 1..Len(chunks)} : queue[i].sec_id > -1}

\* C24: lastSectionId is the section id of the item that started the most
\* recent chunk started by an item with a section id, and -2 when there is
\* none; it changes only in a step in which such an item starts a chunk, so not
\* when an item is merged and not for a table.
C24_LastSidOfLatestBlockStart ==
    /\ [](m_pc \in {"merge", "done"} =>
            last_sid = IF BlockStarts = {} THEN -2
                       ELSE queue[CHOOSE i \in BlockStarts :
                                    \A j \in BlockStarts : j <= i].sec_id)
    /\ [][ last_sid' # last_sid =>
             /\ HandlesItem
             /\ Len(chunks') = Len(chunks) + 1
             /\ queue[k + 1].sec_id > -1 ]_vars

\* a block of section 0 started a chunk, a second one was merged, and a table
\* started the next chunk at 1024 tokens: lastSectionId is still 0
C24_Witness ==
    /\ m_pc = "merge"
    /\ k = 3
    /\ queue[1].sec_id = 0 /\ queue[2].sec_id = 0 /\ queue[3].sec_id = -1
    /\ Len(chunks) = 2
    /\ last_sid = 0

----------------------------------------------------------------------------
(* Q/A Reconstructor: claims C25 and C26, under SpecQA *)

\* C25: whenever there is a pending image the answer buffer is not empty, so at
\* the end of the stream the test of the buffer alone emits what the test
\* `buffer or image` of a heading would emit.
C25_ImageImpliesBuffer ==
    /\ [](last_image # NoImage => NonEmptyStr(last_answer))
    /\ [][ StreamEnds =>
             ti_list' = IF NonEmptyStr(last_answer) \/ last_image # NoImage
                        THEN Flushed(ti_list, question_stack, last_answer, last_image)
                        ELSE ti_list ]_vars

\* a heading and a paragraph that is a picture only: the buffer is the newline
\* alone, and the end of the stream emitted the unit with the picture
C25_Witness ==
    /\ q_pc = "done"
    /\ Len(paras) = 2
    /\ paras[1].text = "H1"
    /\ paras[2].text = "" /\ paras[2].pic = <<2, 1>>
    /\ last_answer = <<"\n", "">>
    /\ last_image = <<2, 1>>
    /\ ti_list = << [text |-> <<"H1", "\n", "\n", "">>, image |-> <<2, 1>>] >>

\* the page counter when paragraph j was read
PageBefore(j) == SumSeq([i \in 1..(j - 1) |-> NumBreaks(paras[i].runs)])

\* the paragraphs read so far that were handled as headings
HeadingsProcessed ==
    {j \in 1..Len(paras) :
        /\ paras[j].text # ""
        /\ paras[j].level \in 1..6
        /\ q_from_page <= PageBefore(j) /\ PageBefore(j) < q_to_page}

\* C26: every unit emitted starts with a heading that was processed; there are
\* never more units than headings processed, and none while no heading is open;
\* a heading, or the end of the stream, that finds no heading open emits
\* nothing, and the heading empties the answer buffer and the pending image.
C26_UnitsHaveHeadingPath ==
    /\ [](\A u \in 1..Len(ti_list) :
             /\ ti_list[u].text[1] # ""
             /\ \E j \in HeadingsProcessed : ti_list[u].text[1] = paras[j].text)
    /\ [](Len(ti_list) <= Cardinality(HeadingsProcessed))
    /\ [](question_stack = <<>> => ti_list = <<>>)
    /\ [][ (ReadsHeading \/ StreamEnds) /\ question_stack = <<>> =>
             /\ ti_list' = ti_list
             /\ ReadsHeading => ~NonEmptyStr(last_answer') /\ last_image' = NoImage ]_vars

\* a picture, the heading H1 and the paragraph P1: the one unit emitted has
\* the answer P1 and no image
C26_Witness ==
    /\ q_pc = "done"
    /\ ~vision_model
    /\ Len(paras) = 3
    /\ paras[1].pic = <<2, 1>> /\ paras[2].text = "H1" /\ paras[3].text = "P1"
    /\ ti_list = << [text |-> <<"H1", "\n", "\n", "P1">>, image |-> NoImage] >>

====
